---- MODULE Spec2Model ----
(***************************************************************************)
(* KOZOS kernel (src/src/12/os/kozos.c): TCB table, per-priority ready     *)
(* queues kept as intrusive singly linked lists, mailboxes with a FIFO of  *)
(* message buffers and one receiver slot, the system-call / service-call   *)
(* dispatcher and the interrupt entry thread_intr.                         *)
(*                                                                         *)
(* Pointers are modelled as indexes: a TCB pointer is the slot number      *)
(* 1..THREAD_NUM, a message-buffer pointer is 1..MaxMsgBufs, NULL is 0.     *)
(* One action is one whole pass through thread_intr (save context, run the *)
(* handler of the vector, schedule, dispatch), or kz_start.                *)
(***************************************************************************)
EXTENDS Integers, Sequences, FiniteSets, TLC

\* ---- program constants -------------------------------------------------
THREAD_NUM == 6
PRIORITY_NUM == 16
MSGBOX_ID_NUM == 2
NULL == 0
KZ_THREAD_FLAG_READY == 1

\* ---- bounds of the model -----------------------------------------------
\* number of message buffers the kernel pool can hold at one time
MaxMsgBufs == 1
\* number of blocks the pool can hand out to kz_kmalloc at one time
MaxUserBlocks == 1
\* size of the user stack arena, in units of the stack sizes below: the
\* number of threads that can be created in all (Spec)
StackArena == 2
\* the same for SpecReuse, where a freed TCB slot gets reused
ReuseArena == 3

\* ---- input domains -----------------------------------------------------
Slots == 1 .. THREAD_NUM
Prios == 0 .. (PRIORITY_NUM - 1)
\* priorities that requests are issued with
PrioInputs == {0, 1}
StackSizes == {1}
MboxIds == 0 .. (MSGBOX_ID_NUM - 1)
\* mailboxes that requests name
MboxInputs == MboxIds
\* messages handed to kz_send: << size, p >>, p a payload pointer
\* (uninterpreted by the kernel)
Messages == { << 15, 1 >> }
BufIds == 1 .. MaxMsgBufs
UserBlocks == 1 .. MaxUserBlocks
\* kz_handler_t values given to kz_setintr: NULL, or the address of a user
\* handler (what the handler does when called is the handler's choice)
HandlerIds == {NULL, 1}

VARIABLES
  threads,      \* kz_thread threads[THREAD_NUM]
  readyque,     \* readyque[PRIORITY_NUM] : head, tail
  current,      \* kz_thread *current
  msgboxes,     \* kz_msgbox msgboxes[MSGBOX_ID_NUM]
  msgbufs,      \* kz_msgbuf objects of the kernel pool
  kzmem,        \* blocks of the pool handed out by kz_kmalloc
  thread_stack, \* static char *thread_stack of thread_run (offset in arena)
  handlers,     \* handlers[] entry of the device vector
  softvec,      \* device vector routed to thread_intr (softvec_setintr done)
  pb,           \* per thread: the recv arm of its kz_syscall_param_t
                \* (ret, *sizep, *pp), which lives on the thread's stack
  mode,         \* "start" before kz_start, "run", "down" in kz_sysdown
  last,         \* the request handled by the last interrupt, with results
  ids,          \* history: the thread ids kz_start and kz_run have returned
  sent,         \* history: per mailbox, the messages whose SEND has been
                \* processed and that no receiver has got yet, oldest first
  test,         \* the threads of main.c, test11_1.c and test11_2.c: their
                \* place in their code and their local variables (SpecTest)
  stacks        \* history: the stack regions of more than 0 bytes that
                \* thread_run has handed out, in the order of creation:
                \* memset from base, thp->stack = top

vars == << threads, readyque, current, msgboxes, msgbufs, kzmem,
           thread_stack, handlers, softvec, pb, mode, last, ids, sent,
           test, stacks >>

\* memset(thp, 0, sizeof(*thp))
ZeroTCB == [next |-> NULL, priority |-> 0, stack |-> 0, flags |-> 0,
            func |-> 0, param |-> 0]

ZeroQue == [head |-> NULL, tail |-> NULL]

ZeroBox == [receiver |-> NULL, head |-> NULL, tail |-> NULL]

ZeroBuf == [used |-> FALSE, next |-> NULL, sender |-> NULL,
            size |-> 0, p |-> 0]

\* live: the block is still in use, i.e. its thread has not resumed since
\* it trapped with it
ZeroPb == [ret |-> 0, size |-> 0, p |-> 0, live |-> FALSE]

\* no message (history)
NoMsg == [sender |-> -1, size |-> 0, p |-> 0]

\* what recvmsg handed over in this interrupt: receiver, mailbox, values
NoDelivery == [to |-> NULL, box |-> -1, ret |-> 0, size |-> 0, p |-> 0]

\* The kernel data a handler works on, gathered in one record so that the
\* C statements can be applied one after the other.
Kernel == [threads |-> threads, readyque |-> readyque, current |-> current,
           msgboxes |-> msgboxes, msgbufs |-> msgbufs, kzmem |-> kzmem,
           thread_stack |-> thread_stack, handlers |-> handlers,
           softvec |-> softvec, pb |-> pb, down |-> FALSE, ret |-> 0,
           dlv |-> NoDelivery, wild |-> FALSE]

IsReady(k, t) == k.threads[t].flags = KZ_THREAD_FLAG_READY

\* static int getcurrent(void)
getcurrent(k) ==
  IF k.current = NULL THEN k
  ELSE IF ~IsReady(k, k.current) THEN k
  ELSE LET c  == k.current
           pr == k.threads[c].priority
           nx == k.threads[c].next
           q1 == [k.readyque EXCEPT ![pr].head = nx]
           q2 == IF nx = NULL THEN [q1 EXCEPT ![pr].tail = NULL] ELSE q1
       IN [k EXCEPT !.readyque = q2,
                    !.threads = [k.threads EXCEPT ![c].flags = 0,
                                                  ![c].next = NULL]]

\* static int putcurrent(void)
putcurrent(k) ==
  IF k.current = NULL THEN k
  ELSE IF IsReady(k, k.current) THEN k
  ELSE LET c  == k.current
           pr == k.threads[c].priority
           tl == k.readyque[pr].tail
           t1 == IF tl # NULL THEN [k.threads EXCEPT ![tl].next = c]
                 ELSE k.threads
           q1 == IF tl # NULL THEN k.readyque
                 ELSE [k.readyque EXCEPT ![pr].head = c]
       IN [k EXCEPT !.readyque = [q1 EXCEPT ![pr].tail = c],
                    !.threads = [t1 EXCEPT ![c].flags = KZ_THREAD_FLAG_READY]]

\* void kz_sysdown(void): prints and loops forever; nothing after it runs
kz_sysdown(k) == [k EXCEPT !.down = TRUE]

\* the for loop of thread_run: lowest slot whose init.func is null
FreeSlots(k) == {i \in Slots : k.threads[i].func = 0}

MinOf(S) == CHOOSE x \in S : \A y \in S : x <= y

\* thread_run with the search loop taking the last free slot instead of
\* the first (mutation for C9)
thread_run_last(k, priority, stacksize) ==
  IF FreeSlots(k) = {} THEN [k EXCEPT !.ret = -1]
  ELSE LET thp == CHOOSE x \in FreeSlots(k) : \A y \in FreeSlots(k) : x >= y
           sp  == k.thread_stack + stacksize
           k1  == [k EXCEPT !.threads[thp] =
                      [ZeroTCB EXCEPT !.priority = priority, !.func = 1,
                                      !.stack = sp],
                            !.thread_stack = sp]
           k2  == putcurrent(k1)
           k3  == putcurrent([k2 EXCEPT !.current = thp])
       IN [k3 EXCEPT !.ret = k3.current]

\* thread_run without "thread_stack += stacksize" on the static pointer: the
\* next thread is given the same area
thread_run_shared_stack(k, priority, stacksize) ==
  IF FreeSlots(k) = {} THEN [k EXCEPT !.ret = -1]
  ELSE LET thp == MinOf(FreeSlots(k))
           sp  == k.thread_stack + stacksize
           k1  == [k EXCEPT !.threads[thp] =
                              [ZeroTCB EXCEPT !.priority = priority,
                                              !.func = 1, !.stack = sp]]
           k2  == putcurrent(k1)
           k3  == putcurrent([k2 EXCEPT !.current = thp])
       IN [k3 EXCEPT !.ret = k3.current]

\* static kz_thread_id_t thread_run(func, name, priority, stacksize, ...)
thread_run(k, priority, stacksize) ==
  IF FreeSlots(k) = {} THEN [k EXCEPT !.ret = -1]
  ELSE LET thp == MinOf(FreeSlots(k))
           sp  == k.thread_stack + stacksize
           k1  == [k EXCEPT !.threads[thp] =
                      [ZeroTCB EXCEPT !.priority = priority, !.func = 1,
                                      !.stack = sp],
                            !.thread_stack = sp]
           k2  == putcurrent(k1)
           k3  == putcurrent([k2 EXCEPT !.current = thp])
       IN [k3 EXCEPT !.ret = k3.current]

\* static int thread_exit(void)
thread_exit(k) == [k EXCEPT !.threads[k.current] = ZeroTCB, !.ret = 0]

\* static int thread_wait(void)
thread_wait(k) == [putcurrent(k) EXCEPT !.ret = 0]

\* static int thread_sleep(void)
thread_sleep(k) == [k EXCEPT !.ret = 0]

\* static int thread_wakeup(kz_thread_id_t id)
thread_wakeup(k, id) ==
  LET k1 == putcurrent(k)
      k2 == putcurrent([k1 EXCEPT !.current = id])
  IN [k2 EXCEPT !.ret = 0]

\* static kz_thread_id_t thread_getid(void)
thread_getid(k) ==
  LET k1 == putcurrent(k) IN [k1 EXCEPT !.ret = k1.current]

\* static int thread_chpri(int priority)
thread_chpri(k, priority) ==
  LET old == k.threads[k.current].priority
      k1  == IF priority >= 0
             THEN [k EXCEPT !.threads[k.current].priority = priority]
             ELSE k
  IN [putcurrent(k1) EXCEPT !.ret = old]

\* the non-empty ready queues
NonEmptyQueues(k) == {i \in Prios : k.readyque[i].head # NULL}

\* schedule that also unlinks the thread it selects, as a scheduler that
\* keeps the running thread out of the ready queues would (mutation for C3)
schedule_detach(k) ==
  IF NonEmptyQueues(k) = {} THEN kz_sysdown(k)
  ELSE getcurrent([k EXCEPT !.current =
                      k.readyque[MinOf(NonEmptyQueues(k))].head])

\* schedule with the scan of the ready queues in descending order
\* (mutation for C11)
schedule_descending(k) ==
  IF NonEmptyQueues(k) = {} THEN kz_sysdown(k)
  ELSE [k EXCEPT !.current =
          k.readyque[CHOOSE x \in NonEmptyQueues(k) :
                       \A y \in NonEmptyQueues(k) : x >= y].head]

\* schedule that goes on with the thread it had when no queue holds a
\* thread (mutation for C16)
schedule_no_down(k) ==
  IF NonEmptyQueues(k) = {} THEN k
  ELSE [k EXCEPT !.current = k.readyque[MinOf(NonEmptyQueues(k))].head]

\* schedule that keeps the current-thread pointer it finds (mutation for
\* C21)
schedule_keep(k) ==
  IF NonEmptyQueues(k) = {} THEN kz_sysdown(k) ELSE k

\* schedule that first moves the head of the first non-empty queue to its
\* tail, as a time-slicing scheduler would (mutation for C30)
schedule_rotate(k) ==
  IF NonEmptyQueues(k) = {} THEN kz_sysdown(k)
  ELSE LET q  == MinOf(NonEmptyQueues(k))
           k1 == putcurrent(getcurrent([k EXCEPT !.current =
                                           k.readyque[q].head]))
       IN [k1 EXCEPT !.current = k1.readyque[q].head]

\* static void schedule(void)
schedule(k) ==
  IF NonEmptyQueues(k) = {} THEN kz_sysdown(k)
  ELSE [k EXCEPT !.current = k.readyque[MinOf(NonEmptyQueues(k))].head]

\* void *kzmem_alloc(int size), for a kz_msgbuf: a free buffer of the pool,
\* NULL when the pool is exhausted
FreeBufs(k) == {b \in DOMAIN k.msgbufs : ~k.msgbufs[b].used}

kzmem_alloc_msgbuf(k) ==
  IF FreeBufs(k) = {} THEN NULL ELSE MinOf(FreeBufs(k))

\* sendmsg that links the new buffer at the head of the mailbox's list
\* (mutation for C18)
sendmsg_at_head(k, id, thp, size, p) ==
  LET mp == kzmem_alloc_msgbuf(k) IN
  IF mp = NULL THEN kz_sysdown(k)
  ELSE LET hd == k.msgboxes[id].head
           b0 == [k.msgbufs EXCEPT ![mp] = [used |-> TRUE, next |-> hd,
                                   sender |-> thp, size |-> size, p |-> p]]
           m1 == IF hd # NULL THEN k.msgboxes
                 ELSE [k.msgboxes EXCEPT ![id].tail = mp]
       IN [k EXCEPT !.msgbufs = b0,
                    !.msgboxes = [m1 EXCEPT ![id].head = mp]]

\* static void sendmsg(kz_msgbox *mboxp, kz_thread *thp, int size, char *p)
sendmsg(k, id, thp, size, p) ==
  LET mp == kzmem_alloc_msgbuf(k) IN
  IF mp = NULL THEN kz_sysdown(k)
  ELSE LET tl == k.msgboxes[id].tail
           b0 == [k.msgbufs EXCEPT ![mp] = [used |-> TRUE, next |-> NULL,
                                   sender |-> thp, size |-> size, p |-> p]]
           b1 == IF tl # NULL THEN [b0 EXCEPT ![tl].next = mp] ELSE b0
           m1 == IF tl # NULL THEN k.msgboxes
                 ELSE [k.msgboxes EXCEPT ![id].head = mp]
       IN [k EXCEPT !.msgbufs = b1,
                    !.msgboxes = [m1 EXCEPT ![id].tail = mp]]

\* recvmsg that does not give the buffer back to the pool (mutation for
\* C25)
recvmsg_keep_buffer(k, id) ==
  LET mp  == k.msgboxes[id].head
      nx  == k.msgbufs[mp].next
      m1  == [k.msgboxes EXCEPT ![id].head = nx]
      m2  == IF nx = NULL THEN [m1 EXCEPT ![id].tail = NULL] ELSE m1
      rcv == k.msgboxes[id].receiver
      val == [ret |-> k.msgbufs[mp].sender, size |-> k.msgbufs[mp].size,
              p |-> k.msgbufs[mp].p, live |-> TRUE]
      ok  == k.threads[rcv].param = 2 /\ k.pb[rcv].live
  IN [k EXCEPT !.msgboxes = [m2 EXCEPT ![id].receiver = NULL],
               !.pb = IF ok THEN [k.pb EXCEPT ![rcv] = val] ELSE k.pb,
               !.wild = k.wild \/ ~ok,
               !.dlv = [to |-> rcv, box |-> id, ret |-> val.ret,
                        size |-> val.size, p |-> val.p]]

\* static void recvmsg(kz_msgbox *mboxp)
\* The three stores go through receiver->syscall.param.  When that pointer
\* is NULL (the receiver's TCB has been zeroed) or no longer addresses a
\* recv parameter block in use (the receiver has resumed, or has trapped
\* with another request since), the stores land outside the model: "wild"
\* records it and pb is left alone.
recvmsg(k, id) ==
  LET mp  == k.msgboxes[id].head
      nx  == k.msgbufs[mp].next
      m1  == [k.msgboxes EXCEPT ![id].head = nx]
      m2  == IF nx = NULL THEN [m1 EXCEPT ![id].tail = NULL] ELSE m1
      rcv == k.msgboxes[id].receiver
      val == [ret |-> k.msgbufs[mp].sender, size |-> k.msgbufs[mp].size,
              p |-> k.msgbufs[mp].p, live |-> TRUE]
      ok  == k.threads[rcv].param = 2 /\ k.pb[rcv].live
  IN [k EXCEPT !.msgboxes = [m2 EXCEPT ![id].receiver = NULL],
               !.msgbufs = [k.msgbufs EXCEPT ![mp] = ZeroBuf],
               !.pb = IF ok THEN [k.pb EXCEPT ![rcv] = val] ELSE k.pb,
               !.wild = k.wild \/ ~ok,
               !.dlv = [to |-> rcv, box |-> id, ret |-> val.ret,
                        size |-> val.size, p |-> val.p]]

\* thread_send without the hand-over to a receiver that is already parked
\* (mutation for C6)
thread_send_queue_only(k, id, size, p) ==
  LET k1 == putcurrent(k)
      k2 == sendmsg(k1, id, k1.current, size, p)
  IN IF k2.down THEN k2 ELSE [k2 EXCEPT !.ret = size]

\* static int thread_send(kz_msgbox_id_t id, int size, char *p)
thread_send(k, id, size, p) ==
  LET k1 == putcurrent(k)
      k2 == sendmsg(k1, id, k1.current, size, p)
  IN IF k2.down THEN k2
     ELSE IF k2.msgboxes[id].receiver # NULL
     THEN LET k3 == [k2 EXCEPT !.current = k2.msgboxes[id].receiver]
          IN [putcurrent(recvmsg(k3, id)) EXCEPT !.ret = size]
     ELSE [k2 EXCEPT !.ret = size]

\* thread_recv that parks the caller over a receiver already parked
\* (mutation for C15)
thread_recv_overwrite(k, id) ==
  LET k1 == [k EXCEPT !.msgboxes[id].receiver = k.current] IN
  IF k1.msgboxes[id].head = NULL THEN [k1 EXCEPT !.ret = -1]
  ELSE LET k2 == putcurrent(recvmsg(k1, id))
       IN [k2 EXCEPT !.ret = k2.pb[k2.current].ret]

\* static kz_thread_id_t thread_recv(kz_msgbox_id_t id, int *sizep, char **pp)
thread_recv(k, id) ==
  IF k.msgboxes[id].receiver # NULL THEN kz_sysdown(k)
  ELSE LET k1 == [k EXCEPT !.msgboxes[id].receiver = k.current] IN
       IF k1.msgboxes[id].head = NULL THEN [k1 EXCEPT !.ret = -1]
       ELSE LET k2 == putcurrent(recvmsg(k1, id))
            IN [k2 EXCEPT !.ret = k2.pb[k2.current].ret]

\* static void *thread_kmalloc(int size): kzmem_alloc gives a block that is
\* not handed out, NULL when there is none
thread_kmalloc(k) ==
  LET k1 == putcurrent(k)
      fr == UserBlocks \ k1.kzmem
  IN IF fr = {} THEN [k1 EXCEPT !.ret = NULL]
     ELSE [k1 EXCEPT !.kzmem = k1.kzmem \cup {MinOf(fr)},
                     !.ret = MinOf(fr)]

\* static int thread_kmfree(char *p)
thread_kmfree(k, p) ==
  [putcurrent([k EXCEPT !.kzmem = k.kzmem \ {p}]) EXCEPT !.ret = 0]

\* static int thread_setintr(softvec_type_t type, kz_handler_t handler),
\* for the device vector
thread_setintr(k, handler) ==
  [putcurrent([k EXCEPT !.softvec = TRUE, !.handlers = handler])
     EXCEPT !.ret = 0]

\* ---- initial state: the zeroed kernel data kz_start begins with ---------
\* no thread of the test programs started: idle at the top of
\* start_threads (ipc), per test thread its id, its place (pc), the result
\* of its kz_kmalloc (mine), what its kz_recv calls gave (got) and what it
\* passed to kz_kmfree (freed)
NoTest == [ipc |-> 0, id |-> << NULL, NULL >>, pc |-> << 1, 1 >>,
           mine |-> << NULL, NULL >>, got |-> << << >>, << >> >>,
           freed |-> << << >>, << >> >>]

Init ==
  /\ threads = [i \in Slots |-> ZeroTCB]
  /\ readyque = [i \in Prios |-> ZeroQue]
  /\ current = NULL
  /\ msgboxes = [m \in MboxIds |-> ZeroBox]
  /\ msgbufs = [b \in BufIds |-> ZeroBuf]
  /\ kzmem = {}
  /\ thread_stack = 0
  /\ handlers = NULL
  /\ softvec = FALSE
  /\ pb = [i \in Slots |-> ZeroPb]
  /\ mode = "start"
  /\ last = [op |-> "none", caller |-> NULL, a1 |-> 0, a2 |-> 0, a3 |-> 0,
             ret |-> 0, dlv |-> NoDelivery, wild |-> FALSE, exp |-> NoMsg]
  /\ ids = {}
  /\ sent = [m \in MboxIds |-> << >>]
  /\ test = NoTest
  /\ stacks = << >>

\* history of the messages in flight: a processed SEND appends, a delivery
\* removes the oldest entry of the mailbox it was made from
SentWith(k, op, sender, id, size, p) ==
  IF op = "SEND" /\ ~k.down
  THEN [sent EXCEPT ![id] =
          Append(@, [sender |-> sender, size |-> size, p |-> p])]
  ELSE sent

\* the entry a delivery of this interrupt should have handed over
Oldest(k, op, sender, id, size, p) ==
  LET s1 == SentWith(k, op, sender, id, size, p)
  IN IF k.dlv.to # NULL /\ Len(s1[k.dlv.box]) > 0
     THEN Head(s1[k.dlv.box]) ELSE NoMsg

SentAfter(k, op, sender, id, size, p) ==
  LET s1 == SentWith(k, op, sender, id, size, p)
  IN IF k.dlv.to # NULL /\ Len(s1[k.dlv.box]) > 0
     THEN [s1 EXCEPT ![k.dlv.box] = Tail(@)]
     ELSE s1

\* void kz_syscall(type, param): the wrapper's parameter block is recorded
\* in the caller's TCB (param 2: a recv block, 1: any other block)
kz_syscall(k, type) ==
  [k EXCEPT !.threads[k.current].param = IF type = "RECV" THEN 2 ELSE 1,
            !.pb[k.current] = [ZeroPb EXCEPT !.live = TRUE]]

\* static void syscall_proc(type, p), up to the call of the handler
syscall_proc(k) == getcurrent(k)

\* static void srvcall_proc(type, p), up to the call of the handler
srvcall_proc(k) == [k EXCEPT !.current = NULL]

\* call_functions stores the handler's result in the caller's block
\* (p->un.recv.ret = thread_recv(...)); nothing runs after a kz_sysdown
StoreRecvRet(k, caller) ==
  IF k.down THEN k ELSE [k EXCEPT !.pb[caller].ret = k.ret]

\* The tail of thread_intr: schedule(), dispatch(&current->context), with
\* the record of the request.  The dispatched thread resumes, so the
\* parameter block of its last request goes out of use.  dispatch of a TCB
\* that was not primed by thread_run (init.func null, context.sp 0) is
\* undefined behaviour: the model stops there, in mode "undef", and says
\* nothing of what follows.
Resume(k, op, caller, a1, a2, a3) ==
  LET k1 == IF k.down THEN k ELSE schedule(k)
      primed == k1.current # NULL /\ k1.threads[k1.current].func # 0
  IN /\ threads' = k1.threads
     /\ readyque' = k1.readyque
     /\ current' = k1.current
     /\ msgboxes' = k1.msgboxes
     /\ msgbufs' = k1.msgbufs
     /\ kzmem' = k1.kzmem
     /\ thread_stack' = k1.thread_stack
     /\ handlers' = k1.handlers
     /\ softvec' = k1.softvec
     /\ pb' = IF k1.down \/ k1.current = NULL THEN k1.pb
              ELSE [k1.pb EXCEPT ![k1.current].live = FALSE]
     /\ mode' = IF k1.down THEN "down"
                ELSE IF primed THEN "run" ELSE "undef"
     /\ last' = [op |-> op, caller |-> caller, a1 |-> a1, a2 |-> a2,
                 a3 |-> a3, ret |-> k1.ret, dlv |-> k1.dlv,
                 wild |-> k1.wild,
                 exp |-> Oldest(k1, op, caller, a1, a2, a3)]
     /\ ids' = IF op = "RUN" /\ k1.ret # -1 THEN ids \cup {k1.ret} ELSE ids
     /\ sent' = SentAfter(k1, op, caller, a1, a2, a3)
     /\ stacks' = IF op = "RUN" /\ k1.ret # -1 /\ a2 > 0
                  THEN Append(stacks, [base |-> thread_stack,
                                       top |-> k1.threads[k1.ret].stack])
                  ELSE stacks

\* a request of a thread other than the scripted test threads
Dispatch(k, op, caller, a1, a2, a3) ==
  Resume(k, op, caller, a1, a2, a3) /\ UNCHANGED test

\* void kz_start(func, name, priority, stacksize, argc, argv)
Start(P, S) ==
  /\ mode = "start"
  /\ \E priority \in P, stacksize \in S :
       LET k1 == thread_run(Kernel, priority, stacksize)
           k2 == [k1 EXCEPT !.current = k1.ret]
       IN /\ threads' = k2.threads
          /\ readyque' = k2.readyque
          /\ current' = k2.current
          /\ thread_stack' = k2.thread_stack
          /\ mode' = "run"
          /\ last' = [last EXCEPT !.op = "START", !.a1 = priority,
                                  !.a2 = stacksize, !.ret = k2.ret]
          /\ ids' = {k2.ret}
          /\ stacks' = IF stacksize > 0
                       THEN << [base |-> thread_stack,
                                top |-> k2.threads[k2.ret].stack] >>
                       ELSE << >>
          /\ UNCHANGED << msgboxes, msgbufs, kzmem, handlers, softvec,
                          pb, sent, test >>

\* the state syscall_intr starts from: the running thread has issued
\* kz_syscall(type, ...) and trapped
Trap(type) == syscall_proc(kz_syscall(Kernel, type))

\* ---- one request = one pass through thread_intr ------------------------
\* The parameters are the sets the request's arguments are drawn from.
RunReq(P, S, arena) ==
  /\ mode = "run"
  /\ \E priority \in P, stacksize \in S :
       /\ thread_stack + stacksize <= arena
       /\ Dispatch(thread_run(Trap("RUN"), priority, stacksize),
                   "RUN", current, priority, stacksize, 0)

ExitReq ==
  /\ mode = "run"
  /\ Dispatch(thread_exit(Trap("EXIT")), "EXIT", current, 0, 0, 0)

WaitReq ==
  /\ mode = "run"
  /\ Dispatch(thread_wait(Trap("WAIT")), "WAIT", current, 0, 0, 0)

SleepReq ==
  /\ mode = "run"
  /\ Dispatch(thread_sleep(Trap("SLEEP")), "SLEEP", current, 0, 0, 0)

WakeupReq(I) ==
  /\ mode = "run"
  /\ \E id \in I :
       Dispatch(thread_wakeup(Trap("WAKEUP"), id),
                "WAKEUP", current, id, 0, 0)

GetidReq ==
  /\ mode = "run"
  /\ Dispatch(thread_getid(Trap("GETID")), "GETID", current, 0, 0, 0)

ChpriReq(P) ==
  /\ mode = "run"
  /\ \E priority \in P :
       Dispatch(thread_chpri(Trap("CHPRI"), priority),
                "CHPRI", current, priority, 0, 0)

KmallocReq ==
  /\ mode = "run"
  /\ Dispatch(thread_kmalloc(Trap("KMALLOC")), "KMALLOC", current, 0, 0, 0)

KmfreeReq ==
  /\ mode = "run"
  /\ \E p \in kzmem :
       Dispatch(thread_kmfree(Trap("KMFREE"), p),
                "KMFREE", current, p, 0, 0)

SendReq(M, Msgs) ==
  /\ mode = "run"
  /\ \E id \in M, msg \in Msgs :
       Dispatch(thread_send(Trap("SEND"), id, msg[1], msg[2]),
                "SEND", current, id, msg[1], msg[2])

RecvReq(M) ==
  /\ mode = "run"
  /\ \E id \in M :
       Dispatch(StoreRecvRet(thread_recv(Trap("RECV"), id), current),
                "RECV", current, id, 0, 0)

SetintrReq(H) ==
  /\ mode = "run"
  /\ \E handler \in H :
       Dispatch(thread_setintr(Trap("SETINTR"), handler),
                "SETINTR", current, handler, 0, 0)

\* static void softerr_intr(void), entered through thread_intr
SofterrIntr ==
  /\ mode = "run"
  /\ Dispatch(thread_exit(getcurrent(Kernel)), "SOFTERR", current, 0, 0, 0)

\* thread_intr for the device vector, when handlers[type] is NULL or the
\* handler makes no service call
PlainIntr ==
  /\ mode = "run"
  /\ softvec
  /\ Dispatch(Kernel, "INTR", NULL, 0, 0, 0)

\* thread_intr for the device vector, when the handler calls
\* kz_srvcall(KZ_SYSCALL_TYPE_SEND, ...)
SendIntr(M, Msgs) ==
  /\ mode = "run"
  /\ softvec
  /\ handlers # NULL
  /\ \E id \in M, msg \in Msgs :
       Dispatch(thread_send(srvcall_proc(Kernel), id, msg[1], msg[2]),
                "SEND", NULL, id, msg[1], msg[2])

\* thread_intr for the device vector, when the handler calls
\* kz_srvcall(KZ_SYSCALL_TYPE_WAKEUP, ...)
WakeupIntr(I) ==
  /\ mode = "run"
  /\ softvec
  /\ handlers # NULL
  /\ \E id \in I :
       Dispatch(thread_wakeup(srvcall_proc(Kernel), id),
                "WAKEUP", NULL, id, 0, 0)

\* ---- Spec: the thread, message and interrupt requests, at most
\* StackArena thread creations (the pool requests are in SpecMem) ---------
KzStart == Start(PrioInputs, StackSizes)
SysRun == RunReq(PrioInputs, StackSizes, StackArena)
SysExit == ExitReq
SysWait == WaitReq
SysSleep == SleepReq
SysWakeup == WakeupReq(ids)
SysGetid == GetidReq
SysChpri == ChpriReq(PrioInputs \cup {-1})
SysKmalloc == KmallocReq
SysKmfree == KmfreeReq
SysSend == SendReq(MboxInputs, Messages)
SysRecv == RecvReq(MboxInputs)
SysSetintr == SetintrReq(HandlerIds)
Softerr == SofterrIntr
DevIntrPlain == PlainIntr
DevIntrSend == SendIntr(MboxInputs, Messages)
DevIntrWakeup == WakeupIntr(ids)

Next ==
  \/ KzStart
  \/ SysRun
  \/ SysExit
  \/ SysWait
  \/ SysSleep
  \/ SysWakeup
  \/ SysGetid
  \/ SysChpri
  \/ SysSend
  \/ SysRecv
  \/ SysSetintr
  \/ Softerr
  \/ DevIntrPlain
  \/ DevIntrSend
  \/ DevIntrWakeup

Spec == Init /\ [][Next]_vars

\* ---- SpecReuse: the thread requests only, with one more creation, so
\* that the slot of an exited thread is given to a new thread ------------
ReuseRun == RunReq(PrioInputs, StackSizes, ReuseArena)

NextReuse ==
  \/ KzStart
  \/ ReuseRun
  \/ SysExit
  \/ SysWait
  \/ SysSleep
  \/ SysWakeup
  \/ SysGetid
  \/ SysChpri
  \/ Softerr

SpecReuse == Init /\ [][NextReuse]_vars

\* ---- SpecMem: threads that take blocks from the kernel pool, pass them
\* in messages and give them back -----------------------------------------
NextMem ==
  \/ KzStart
  \/ SysRun
  \/ SysExit
  \/ SysWait
  \/ SysKmalloc
  \/ SysKmfree
  \/ SysSend
  \/ SysRecv

SpecMem == Init /\ [][NextMem]_vars

\* ---- SpecFull: threads of one priority that create threads, yield and
\* exit, with enough creations to fill the TCB table and reuse a slot ----
\* (stacksize 0: these threads take nothing from the stack arena, so the
\* number of creations is not limited)
FullPrios == {1}

FullSizes == {0}

FullStart == Start(FullPrios, FullSizes)

FullRun == RunReq(FullPrios, FullSizes, StackArena)

NextFull ==
  \/ FullStart
  \/ FullRun
  \/ SysExit
  \/ SysWait

SpecFull == Init /\ [][NextFull]_vars

\* ---- SpecIdle: the start-up of main.c: kz_start at priority 0, the idle
\* thread creates its workers and goes to priority 15 with kz_chpri; the
\* threads yield, sleep, wake each other and exit -------------------------
IdlePrios == {0}

WorkerPrios == {1, 8}

IdleChpriPrios == {15}

IdleStart == Start(IdlePrios, StackSizes)

IdleRun == RunReq(WorkerPrios, StackSizes, ReuseArena)

IdleChpri == ChpriReq(IdleChpriPrios)

NextIdle ==
  \/ IdleStart
  \/ IdleRun
  \/ IdleChpri
  \/ SysExit
  \/ SysWait
  \/ SysSleep
  \/ SysWakeup

SpecIdle == Init /\ [][NextIdle]_vars

\* ---- SpecTest: start_threads of main.c creating the threads of
\* test11_1.c and test11_2.c, which then run their code ------------------
\* number of message buffers the kernel pool can hold at one time here
TestMsgBufs == 2
\* priorities the two test threads are created with
TestPrios == {0, 1, 2, 15}
\* kozos.h: MSGBOX_ID_MSGBOX1 = 0, MSGBOX_ID_MSGBOX2
MSGBOX_ID_MSGBOX1 == 0
MSGBOX_ID_MSGBOX2 == 1
\* the thread made by kz_start takes the first TCB
IdleId == 1
\* addresses of the string literals "static memory\n" of test11_1.c and
\* test11_2.c, apart from the blocks of the pool
StaticOf == << 11, 12 >>

\* one request of a test thread; p says where the pointer argument comes
\* from: the string literal, the local p as set by kz_kmalloc ("own") or as
\* set by the last kz_recv ("got")
Req(op, id, size, p) == [op |-> op, id |-> id, size |-> size, p |-> p]

\* the requests of test11_1_main and of test11_2_main in program order;
\* the return from main ends in kz_exit (thread_end)
Program ==
  << << Req("RECV", MSGBOX_ID_MSGBOX1, 0, "none"),
        Req("RECV", MSGBOX_ID_MSGBOX1, 0, "none"),
        Req("KMFREE", 0, 0, "got"),
        Req("SEND", MSGBOX_ID_MSGBOX2, 15, "static"),
        Req("KMALLOC", 0, 18, "none"),
        Req("SEND", MSGBOX_ID_MSGBOX2, 18, "own"),
        Req("EXIT", 0, 0, "none") >>,
     << Req("SEND", MSGBOX_ID_MSGBOX1, 15, "static"),
        Req("KMALLOC", 0, 18, "none"),
        Req("SEND", MSGBOX_ID_MSGBOX1, 18, "own"),
        Req("RECV", MSGBOX_ID_MSGBOX2, 0, "none"),
        Req("RECV", MSGBOX_ID_MSGBOX2, 0, "none"),
        Req("KMFREE", 0, 0, "got"),
        Req("EXIT", 0, 0, "none") >> >>

Tests == {1, 2}

\* test thread n is the running thread and has a request left
Running(n) ==
  /\ mode = "run"
  /\ current # NULL
  /\ test.id[n] = current
  /\ test.pc[n] <= Len(Program[n])

Instr(n) == Program[n][test.pc[n]]

\* what thread n has read from size and p after its kz_recv calls so far:
\* it reads them when it runs on after the call
Observed(n) ==
  IF test.pc[n] > 1 /\ Program[n][test.pc[n] - 1].op = "RECV"
  THEN Append(test.got[n], [size |-> pb[test.id[n]].size,
                            p |-> pb[test.id[n]].p])
  ELSE test.got[n]

Stepped(n) == [test EXCEPT !.pc[n] = @ + 1, !.got[n] = Observed(n)]

\* kz_start(start_threads, "idle", 0, 0x100, 0, NULL)
TestStart == Start(IdlePrios, StackSizes)

\* start_threads: kz_run of the two test threads, in either order
TestRun ==
  /\ mode = "run"
  /\ current = IdleId
  /\ test.ipc \in {0, 1}
  /\ \E n \in Tests, priority \in TestPrios :
       /\ test.id[n] = NULL
       /\ \E k0 \in {Trap("RUN")} :
            \E k \in {thread_run(k0, priority, 1)} :
              /\ Resume(k, "RUN", current, priority, 1, 0)
              /\ test' = [test EXCEPT !.ipc = @ + 1, !.id[n] = k.ret]

\* start_threads: kz_chpri(15), after which idle only loops
TestChpri ==
  /\ mode = "run"
  /\ current = IdleId
  /\ test.ipc = 2
  /\ \E priority \in IdleChpriPrios :
       /\ \E k0 \in {Trap("CHPRI")} :
            \E k \in {thread_chpri(k0, priority)} :
              Resume(k, "CHPRI", current, priority, 0, 0)
       /\ test' = [test EXCEPT !.ipc = 3]

TestRecv ==
  \E n \in Tests :
    /\ Running(n)
    /\ Instr(n).op = "RECV"
    /\ \E k0 \in {Trap("RECV")} :
         \E k \in {StoreRecvRet(thread_recv(k0, Instr(n).id), current)} :
           Resume(k, "RECV", current, Instr(n).id, 0, 0)
    /\ test' = Stepped(n)

TestSend ==
  \E n \in Tests :
    /\ Running(n)
    /\ Instr(n).op = "SEND"
    /\ \E p \in {IF Instr(n).p = "static" THEN StaticOf[n]
                  ELSE test.mine[n]} :
         \E k0 \in {Trap("SEND")} :
           \E k \in {thread_send(k0, Instr(n).id, Instr(n).size, p)} :
             Resume(k, "SEND", current, Instr(n).id, Instr(n).size, p)
    /\ test' = Stepped(n)

TestKmalloc ==
  \E n \in Tests :
    /\ Running(n)
    /\ Instr(n).op = "KMALLOC"
    /\ \E k0 \in {Trap("KMALLOC")} :
         \E k \in {thread_kmalloc(k0)} :
           /\ Resume(k, "KMALLOC", current, Instr(n).size, 0, 0)
           /\ test' = [Stepped(n) EXCEPT !.mine[n] = k.ret]

\* kz_kmfree(p), p as stored by the kz_recv before
TestKmfree ==
  \E n \in Tests :
    /\ Running(n)
    /\ Instr(n).op = "KMFREE"
    /\ \E k0 \in {Trap("KMFREE")} :
         \E k \in {thread_kmfree(k0, pb[current].p)} :
           Resume(k, "KMFREE", current, pb[current].p, 0, 0)
    /\ test' = [Stepped(n) EXCEPT
                  !.freed[n] = Append(@, [p |-> pb[current].p,
                                          live |-> pb[current].p \in kzmem])]

TestExit ==
  \E n \in Tests :
    /\ Running(n)
    /\ Instr(n).op = "EXIT"
    /\ \E k0 \in {Trap("EXIT")} :
         \E k \in {thread_exit(k0)} :
           Resume(k, "EXIT", current, 0, 0, 0)
    /\ test' = Stepped(n)

InitTest ==
  /\ threads = [i \in Slots |-> ZeroTCB]
  /\ readyque = [i \in Prios |-> ZeroQue]
  /\ current = NULL
  /\ msgboxes = [m \in MboxIds |-> ZeroBox]
  /\ msgbufs = [b \in 1 .. TestMsgBufs |-> ZeroBuf]
  /\ kzmem = {}
  /\ thread_stack = 0
  /\ handlers = NULL
  /\ softvec = FALSE
  /\ pb = [i \in Slots |-> ZeroPb]
  /\ mode = "start"
  /\ last = [op |-> "none", caller |-> NULL, a1 |-> 0, a2 |-> 0, a3 |-> 0,
             ret |-> 0, dlv |-> NoDelivery, wild |-> FALSE, exp |-> NoMsg]
  /\ ids = {}
  /\ sent = [m \in MboxIds |-> << >>]
  /\ test = NoTest
  /\ stacks = << >>

NextTest ==
  \/ TestStart
  \/ TestRun
  \/ TestChpri
  \/ TestRecv
  \/ TestSend
  \/ TestKmalloc
  \/ TestKmfree
  \/ TestExit

\* the processor always executes the thread that was dispatched
SpecTest == InitTest /\ [][NextTest]_vars /\ WF_vars(NextTest)

\* ---- SpecMsg: the message requests of threads and of interrupt handlers
\* with a pool of TestMsgBufs message buffers ----------------------------
NextMsg ==
  \/ KzStart
  \/ SysRun
  \/ SysExit
  \/ SysWakeup
  \/ SysSend
  \/ SysRecv
  \/ SysSetintr
  \/ DevIntrSend

SpecMsg == InitTest /\ [][NextMsg]_vars

\* ---- SpecReuseMsg: creation with reuse of the slot of an exited thread,
\* together with RECV and the SEND of an interrupt handler ------------------
NextReuseMsg ==
  \/ KzStart
  \/ ReuseRun
  \/ SysExit
  \/ SysWakeup
  \/ SysRecv
  \/ SysSetintr
  \/ DevIntrSend

SpecReuseMsg == Init /\ [][NextReuseMsg]_vars

\* ---- SpecStack: threads of one priority created with stacks of two sizes
\* until the table is full or StackLimit is reached; threads exit or are
\* terminated by a software error and their slots are used again -----------
StackLimit == 8

StackInputs == {1, 2}

StackPrios == {1}

StackStart == Start(StackPrios, StackInputs)

StackRun == RunReq(StackPrios, StackInputs, StackLimit)

NextStack ==
  \/ StackStart
  \/ StackRun
  \/ SysExit
  \/ Softerr

SpecStack == Init /\ [][NextStack]_vars

\* ---- the ready queues as lists -------------------------------------------
\* the TCBs met from readyque[q].head along next, at most n of them (a
\* well-formed queue has at most THREAD_NUM)
RECURSIVE Walk(_, _)
Walk(t, n) ==
  IF t = NULL \/ n = 0 THEN << >>
  ELSE << t >> \o Walk(threads[t].next, n - 1)

QueueSeq(q) == Walk(readyque[q].head, THREAD_NUM + 1)

\* how often TCB t is met in queue q
Occurs(t, q) == Cardinality({i \in 1 .. Len(QueueSeq(q)) : QueueSeq(q)[i] = t})

RECURSIVE SumOver(_, _)
SumOver(S, f) ==
  IF S = {} THEN 0
  ELSE LET x == CHOOSE y \in S : TRUE IN f[x] + SumOver(S \ {x}, f)

\* how often TCB t is linked, over all ready queues
Linked(t) == SumOver(Prios, [q \in Prios |-> Occurs(t, q)])

QueuesOf(t) == {q \in Prios : Occurs(t, q) > 0}

TotalQueued == SumOver(Prios, [q \in Prios |-> Len(QueueSeq(q))])

ReadySet == {t \in Slots : threads[t].flags = KZ_THREAD_FLAG_READY}

LiveSet == {t \in Slots : threads[t].func # 0}

\* the queue schedule() takes the next thread from
LowestQueue == MinOf({i \in Prios : readyque[i].head # NULL})

\* the messages linked in mailbox m, oldest first
RECURSIVE BufWalk(_, _)
BufWalk(b, n) ==
  IF b = NULL \/ n = 0 THEN << >>
  ELSE << [sender |-> msgbufs[b].sender, size |-> msgbufs[b].size,
           p |-> msgbufs[b].p] >> \o BufWalk(msgbufs[b].next, n - 1)

Fifo(m) == BufWalk(msgboxes[m].head, Cardinality(DOMAIN msgbufs) + 1)

TypeOK ==
  /\ current \in 0 .. THREAD_NUM
  /\ mode \in {"start", "run", "down", "undef"}
  /\ thread_stack \in 0 .. ReuseArena

\* ---- C1 ----------------------------------------------------------------
\* C1: a TCB has READY set iff it is linked exactly once, in exactly one
\* ready queue, and the number of READY TCBs is the total length of the
\* ready queues.
C1_ReadyIffLinkedOnce ==
  /\ \A t \in Slots : (t \in ReadySet) <=> (Linked(t) = 1)
  /\ Cardinality(ReadySet) = TotalQueued

\* ---- C2 ----------------------------------------------------------------
\* C2: at every dispatch by thread_intr the thread made current is the head
\* of the lowest-numbered non-empty ready queue, and no READY thread has a
\* smaller priority value than it.
C2_DispatchesHighest ==
  (mode = "run" /\ last.op \notin {"none", "START"}) =>
     /\ current = readyque[LowestQueue].head
     /\ \A t \in ReadySet : threads[t].priority >= threads[current].priority

\* ---- C3 ----------------------------------------------------------------
\* C3 as stated: every non-free TCB is either the running thread, linked in
\* no ready queue, or linked in exactly one ready queue.
C3_RunningNotQueued ==
  (mode = "run") =>
     \A t \in LiveSet : IF t = current THEN Linked(t) = 0
                        ELSE Linked(t) = 1

\* C3 as amended: the running thread is itself linked in a ready queue: it
\* is the head of the lowest-numbered non-empty ready queue.
C3_RunningIsQueueHead ==
  (mode = "run") =>
     /\ current # NULL
     /\ Linked(current) >= 1
     /\ readyque[LowestQueue].head = current

\* a thread runs, linked once in its queue, while another thread is blocked
C3_Witness ==
  /\ mode = "run"
  /\ last.op = "SLEEP"
  /\ Linked(current) = 1
  /\ \E t \in LiveSet : t # current /\ Linked(t) = 0

\* ---- C4 ----------------------------------------------------------------
\* C4: a message sent by thread S with SEND(id, size, p) reaches the RECV
\* that consumes it with out_size = size, out_p = p and result S, and the
\* SEND itself returns size.
C4_RecvYieldsSent ==
  /\ (last.op = "SEND" /\ mode # "down") => last.ret = last.a2
  /\ (last.dlv.to # NULL /\ last.exp.sender \in Slots) =>
        /\ ~last.wild
        /\ pb[last.dlv.to].ret = last.exp.sender
        /\ pb[last.dlv.to].size = last.exp.size
        /\ pb[last.dlv.to].p = last.exp.p

\* ---- C5 ----------------------------------------------------------------
\* C5: the messages of a mailbox are delivered in the order of their SENDs,
\* none is lost, duplicated or delivered through another mailbox: each
\* delivery hands the oldest undelivered message of its mailbox to a
\* receiver waiting in RECV, and the linked buffers of a mailbox are
\* exactly its undelivered messages.
C5_FifoNoLoss ==
  /\ last.dlv.to # NULL =>
        /\ ~last.wild
        /\ last.exp = [sender |-> last.dlv.ret, size |-> last.dlv.size,
                       p |-> last.dlv.p]
  /\ \A m \in MboxIds : Fifo(m) = sent[m]

\* ---- C6 ----------------------------------------------------------------
\* C6: after any request no mailbox has both a pending receiver and a
\* non-empty message FIFO.
C6_NoReceiverWithMessages ==
  \A m \in MboxIds : ~(msgboxes[m].receiver # NULL /\ msgboxes[m].head # NULL)

\* a SEND found a parked receiver and delivered to it
C6_Witness ==
  /\ last.op = "SEND"
  /\ last.dlv.to # NULL
  /\ msgboxes[last.dlv.box].receiver = NULL
  /\ msgboxes[last.dlv.box].head = NULL

\* ---- C7 ----------------------------------------------------------------
\* C7: a RUN that finds the TCB table full returns -1 and leaves its caller
\* READY, linked in the ready queue of its priority.
C7_FullRunKeepsCallerReady ==
  (last.op = "RUN" /\ last.ret = -1) =>
     /\ last.caller \in ReadySet
     /\ QueuesOf(last.caller) = {threads[last.caller].priority}

\* ---- C8 ----------------------------------------------------------------
\* C8: at the end of a system call the caller is detached only after SLEEP
\* and after RECV on an empty mailbox; after every other request (EXIT
\* aside) it is READY.
C8_OnlySleepAndRecvBlock ==
  (mode \in {"run", "undef"} /\ last.caller # NULL
     /\ last.op \notin {"none", "START", "EXIT", "SOFTERR"}) =>
     ((last.caller \notin ReadySet) <=>
        (last.op = "SLEEP" \/ (last.op = "RECV" /\ last.ret = -1)))

\* ---- C9 ----------------------------------------------------------------
\* C9: RUN returns -1 iff no TCB has a null init.func, and otherwise takes
\* the lowest such slot and returns its id; EXIT zeroes the caller's TCB,
\* and a RUN that follows an EXIT succeeds.
C9_RunStep ==
  LET free == {i \in Slots : threads[i].func = 0}
  IN /\ last'.op = "RUN" =>
          IF free = {} THEN last'.ret = -1
          ELSE /\ last'.ret = MinOf(free)
               /\ threads'[last'.ret].func # 0
     /\ last'.op = "EXIT" => threads'[current] = ZeroTCB
     /\ (last.op = "EXIT" /\ last'.op = "RUN") => last'.ret \in Slots

C9_RunTakesLowestFreeSlot == [][C9_RunStep]_vars

\* a RUN succeeds, filling the table again, after an earlier RUN was
\* refused (its caller is still detached)
C9_Witness ==
  /\ last.op = "RUN"
  /\ last.ret \in Slots
  /\ LiveSet = Slots
  /\ \E t \in LiveSet : t \notin ReadySet

\* ---- C10 ---------------------------------------------------------------
\* C10: CHPRI(p) returns the caller's previous priority; for p >= 0 the
\* caller's priority becomes p, for p < 0 it stays; the caller is linked
\* at the tail of the queue of its (new) priority and in no other queue,
\* and the dispatch that ends the interrupt is made with that priority.
C10_ChpriStep ==
  last'.op = "CHPRI" =>
    /\ last'.ret = threads[last'.caller].priority
    /\ threads'[last'.caller].priority =
          (IF last'.a1 >= 0 THEN last'.a1 ELSE threads[last'.caller].priority)

C10_AfterChpri ==
  last.op = "CHPRI" =>
    /\ threads[last.caller].flags = KZ_THREAD_FLAG_READY
    /\ readyque[threads[last.caller].priority].tail = last.caller
    /\ QueuesOf(last.caller) = {threads[last.caller].priority}
    /\ Linked(last.caller) = 1
    /\ current = readyque[LowestQueue].head
    /\ \A t \in ReadySet : threads[t].priority >= threads[current].priority

C11_WorkerSelectedAfterRun ==
  (mode = "run" /\ last.op = "RUN" /\ last.ret \in Slots /\ last.a1 = 1
     /\ threads[last.caller].priority = 0 /\ QueueSeq(0) = << last.caller >>)
    => current = last.ret

\* C11 as amended: the idle thread, alone in readyque[0], is dispatched
\* again at the end of its RUN and the worker stays queued; the worker is
\* dispatched at the end of the CHPRI(15) of the idle thread.
C11_IdleSelectedUntilChpri ==
  /\ (mode = "run" /\ last.op = "RUN" /\ last.ret \in Slots /\ last.a1 = 1
        /\ threads[last.caller].priority = 0
        /\ QueueSeq(0) = << last.caller >>)
       => /\ current = last.caller
          /\ current # last.ret
          /\ Occurs(last.ret, 1) = 1
  /\ (last.op = "CHPRI" /\ last.a1 = 15 /\ last.ret = 0
        /\ readyque[0].head = NULL /\ readyque[1].head # NULL)
       => /\ current = readyque[1].head
          /\ current # last.caller

\* the idle thread has created a priority-1 worker and then lowered itself
\* with CHPRI(15): the worker runs
C11_Witness ==
  /\ mode = "run"
  /\ last.op = "CHPRI" /\ last.a1 = 15 /\ last.ret = 0
  /\ last.caller = 1
  /\ current # last.caller
  /\ threads[current].priority = 1
  /\ threads[current].func # 0

\* ---- C12 ---------------------------------------------------------------
\* C12: a WAKEUP of a blocked thread whose priority value is smaller than
\* that of the caller and of every other READY thread ends with the
\* dispatch of that thread; and a running thread whose priority value is
\* smaller than that of every other READY thread keeps being dispatched
\* while it stays READY at that priority, unless a thread of its priority or
\* a higher one has become READY in the meantime.
C12_WakeupStep ==
  \A t \in Slots :
    (/\ last'.op = "WAKEUP" /\ last'.a1 = t
     /\ threads[t].func # 0 /\ threads[t].flags = 0
     /\ \A u \in (ReadySet \cup {current}) \ {t} :
           threads[u].priority > threads[t].priority)
      => current' = t

C12_KeepsRunning ==
  \A t \in Slots :
    (/\ mode = "run" /\ mode' = "run"
     /\ current = t /\ t \in ReadySet
     /\ \A u \in ReadySet \ {t} : threads[u].priority > threads[t].priority
     /\ threads'[t].flags = KZ_THREAD_FLAG_READY
     /\ threads'[t].func # 0
     /\ threads'[t].priority = threads[t].priority)
      => \/ current' = t
         \/ \E u \in Slots \ {t} :
              /\ u \notin ReadySet
              /\ threads'[u].flags = KZ_THREAD_FLAG_READY
              /\ threads'[u].priority <= threads[t].priority

C12_WakeupPreempts == [][C12_WakeupStep /\ C12_KeepsRunning]_vars

\* ---- C13 ---------------------------------------------------------------
\* C13: when the running thread calls WAIT while at least two threads are
\* linked in the queue of its priority and no queue of a higher priority
\* holds a thread, the thread that was second in that queue is dispatched
\* and the queue is rotated by one place: the caller becomes its tail and
\* the order of the others is kept, so repeated WAITs dispatch the threads
\* of one priority in a fixed cyclic order.
C13_WaitStep ==
  \A c \in Slots :
    (/\ mode = "run" /\ current = c
     /\ last'.op = "WAIT" /\ last'.caller = c
     /\ Len(QueueSeq(threads[c].priority)) >= 2
     /\ \A q \in Prios : q < threads[c].priority => readyque[q].head = NULL)
      => /\ current' = QueueSeq(threads[c].priority)[2]
         /\ readyque'[threads[c].priority].tail = c
         /\ threads'[c].next = NULL

\* after a WAIT the queue of the caller ends with the caller, and the
\* dispatched thread is the head of the lowest non-empty queue
C13_AfterWait ==
  (mode = "run" /\ last.op = "WAIT")
    => /\ Len(QueueSeq(threads[last.caller].priority)) >= 1
       /\ QueueSeq(threads[last.caller].priority)
            [Len(QueueSeq(threads[last.caller].priority))] = last.caller
       /\ Occurs(last.caller, threads[last.caller].priority) = 1
       /\ current = readyque[LowestQueue].head

C13_WaitRotates == [][C13_WaitStep]_vars /\ []C13_AfterWait

\* ---- C14 ---------------------------------------------------------------
\* thread t is detached with RECV as its last request and is the receiver
\* of mailbox m
BlockedInRecv(t, m) ==
  /\ threads[t].func # 0
  /\ threads[t].flags = 0
  /\ threads[t].param = 2
  /\ msgboxes[m].receiver = t

\* C14: a SEND to an empty mailbox on which a thread is blocked in RECV
\* (a message buffer being available) clears the receiver slot and links
\* that thread at the tail of the ready queue of its priority; and a
\* detached live thread gets the READY flag only in a WAKEUP naming it or
\* in a SEND to a mailbox whose receiver slot names it.
C14_SendStep ==
  \A t \in Slots, m \in MboxIds :
    (/\ mode = "run"
     /\ BlockedInRecv(t, m)
     /\ msgboxes[m].head = NULL
     /\ \E b \in DOMAIN msgbufs : ~msgbufs[b].used
     /\ last'.op = "SEND" /\ last'.a1 = m)
      => /\ msgboxes'[m].receiver = NULL
         /\ msgboxes'[m].head = NULL
         /\ threads'[t].flags = KZ_THREAD_FLAG_READY
         /\ threads'[t].next = NULL
         /\ readyque'[threads[t].priority].tail = t
         /\ last'.dlv.to = t

C14_UnblockStep ==
  \A t \in Slots :
    (/\ mode = "run"
     /\ threads[t].func # 0
     /\ threads[t].flags = 0
     /\ threads'[t].flags = KZ_THREAD_FLAG_READY)
      => \/ last'.op = "WAKEUP" /\ last'.a1 = t
         \/ last'.op = "SEND" /\ msgboxes[last'.a1].receiver = t

C14_UnblockedBySendOrWakeup == [][C14_SendStep /\ C14_UnblockStep]_vars

\* ---- C15 ---------------------------------------------------------------
\* C15: a RECV on a mailbox whose receiver slot is not NULL ends in
\* system-down and leaves every mailbox, the receiver slot included, as it
\* was; and while the kernel runs, every thread detached by a RECV is the
\* receiver of a mailbox, so no parked receiver has been displaced.
C15_RecvStep ==
  \A m \in MboxIds :
    (/\ mode = "run"
     /\ msgboxes[m].receiver # NULL
     /\ last'.op = "RECV" /\ last'.a1 = m)
      => /\ mode' = "down"
         /\ msgboxes' = msgboxes

C15_ParkedIsReceiver ==
  mode = "run"
    => \A t \in Slots :
         (threads[t].func # 0 /\ threads[t].flags = 0 /\ threads[t].param = 2)
           => \E m \in MboxIds : msgboxes[m].receiver = t

C15_SecondRecvIsDown ==
  [][C15_RecvStep]_vars /\ []C15_ParkedIsReceiver

\* the kernel is down after a RECV on a mailbox on which another thread is
\* still blocked in RECV
C15_Witness ==
  /\ mode = "down"
  /\ last.op = "RECV"
  /\ msgboxes[last.a1].receiver # NULL
  /\ msgboxes[last.a1].receiver # last.caller
  /\ BlockedInRecv(msgboxes[last.a1].receiver, last.a1)

\* ---- C16 ---------------------------------------------------------------
\* C16: once kz_start has run, the kernel is in system-down whenever all
\* sixteen ready queues are empty, and a kernel in system-down stays there
\* with nothing dispatched: the running thread and the queues stay as they
\* were.
C16_EmptyQueuesIsDown ==
  (mode # "start" /\ \A q \in Prios : readyque[q].head = NULL)
    => mode = "down"

C16_DownStep ==
  mode = "down"
    => /\ mode' = "down"
       /\ current' = current
       /\ readyque' = readyque
       /\ threads' = threads

C16_DownWhenNothingReady == []C16_EmptyQueuesIsDown /\ [][C16_DownStep]_vars

\* the kernel went down in schedule after the last READY thread called
\* SLEEP or RECV, a blocked thread remaining
C16_Witness ==
  /\ mode = "down"
  /\ \A q \in Prios : readyque[q].head = NULL
  /\ last.op \in {"SLEEP", "RECV"}
  /\ last.ret \in {0, -1}
  /\ \E t \in Slots \ {last.caller} :
        threads[t].func # 0 /\ threads[t].flags = 0
  /\ threads[last.caller].func # 0 /\ threads[last.caller].flags = 0

\* ---- C17 ---------------------------------------------------------------
\* C17: a softerr interrupt in the running thread c zeroes the TCB of c and
\* takes c out of the head of the queue of its priority; the TCBs of the
\* other threads, the other queues, the mailboxes and the message buffers
\* stay as they were; afterwards c is linked in no queue and, when a queue
\* still holds a thread, the head of the first non-empty queue, a live
\* thread, is running.
C17_SofterrStep ==
  \A c \in Slots :
    (/\ mode = "run" /\ current = c
     /\ last'.op = "SOFTERR")
      => /\ threads'[c] = ZeroTCB
         /\ \A t \in Slots \ {c} : threads'[t] = threads[t]
         /\ \A q \in Prios \ {threads[c].priority} :
               readyque'[q] = readyque[q]
         /\ readyque'[threads[c].priority].head = threads[c].next
         /\ msgboxes' = msgboxes
         /\ msgbufs' = msgbufs

C17_AfterSofterr ==
  last.op = "SOFTERR"
    => /\ threads[last.caller] = ZeroTCB
       /\ Linked(last.caller) = 0
       /\ mode \in {"run", "down"}
       /\ mode = "down" <=> \A q \in Prios : readyque[q].head = NULL
       /\ mode = "run"
            => /\ current = readyque[LowestQueue].head
               /\ threads[current].func # 0
               /\ threads[current].flags = KZ_THREAD_FLAG_READY

C17_SofterrFreesOnlyCaller == [][C17_SofterrStep]_vars /\ []C17_AfterSofterr

\* ---- C18 ---------------------------------------------------------------
TestDone == \A n \in Tests : test.pc[n] > Len(Program[n])

\* what the threads have when both are through: each got size 15 with the
\* other's string literal, then size 18 with the block the other got from
\* kz_kmalloc, and has passed that block, allocated at the time, to
\* kz_kmfree, once; no block stays allocated
C18_Results ==
  TestDone
    => /\ \A n \in Tests :
            /\ test.mine[n] # NULL
            /\ test.got[n] = << [size |-> 15, p |-> StaticOf[3 - n]],
                                [size |-> 18, p |-> test.mine[3 - n]] >>
            /\ test.freed[n] = << [p |-> test.mine[3 - n], live |-> TRUE] >>
       /\ kzmem = {}

C18_NoDown == mode \in {"start", "run"}

\* C18: with the test11_1 and test11_2 threads created by idle in either
\* order and with any priorities, both reach the end of their code, the
\* kernel never goes down, and the results are as C18_Results says.
C18_TestsComplete ==
  /\ <>TestDone
  /\ []C18_NoDown
  /\ []C18_Results

\* C18, amended: the same when both test threads have a priority value
\* smaller than the 15 of idle.
C18_BothAboveIdle ==
  /\ test.ipc = 2
  /\ \A n \in Tests : threads[test.id[n]].priority < 15

C18_TestsCompleteAboveIdle ==
  /\ C18_BothAboveIdle ~> TestDone
  /\ []C18_NoDown
  /\ []C18_Results

\* both test threads are through and idle runs at priority 15
C18_Witness ==
  /\ TestDone
  /\ mode = "run"
  /\ current = IdleId
  /\ threads[IdleId].priority = 15
  /\ \A n \in Tests : Len(test.got[n]) = 2 /\ Len(test.freed[n]) = 1

\* ---- C19 ---------------------------------------------------------------
\* C19: whenever a request has been handled and a thread runs, the
\* receiver of a mailbox is neither flagged READY nor linked in a ready
\* queue.
C19_ReadyNotReceiver ==
  mode = "run"
    => \A m \in MboxIds :
         msgboxes[m].receiver # NULL
           => /\ msgboxes[m].receiver \notin ReadySet
              /\ Linked(msgboxes[m].receiver) = 0

\* ---- C20 ---------------------------------------------------------------
\* C20: a running thread whose last request was a RECV does not find the
\* placeholder -1 in the result slot of that request: the slot holds what
\* recvmsg stored.
C20_NoPlaceholderSeen ==
  (/\ mode = "run"
   /\ current # NULL
   /\ threads[current].func # 0
   /\ threads[current].param = 2)
    => pb[current].ret # -1

C22_SrvSendStep ==
  \A c \in Slots, m \in MboxIds :
    (/\ mode = "run" /\ current = c
     /\ last'.op = "SEND" /\ last'.caller = NULL /\ last'.a1 = m
     /\ mode' # "down")
      => /\ current' \in Slots
         /\ threads'[c].flags = threads[c].flags
         /\ threads'[c].priority = threads[c].priority
         /\ threads'[c].func = threads[c].func
         /\ threads'[c].next \in {threads[c].next, msgboxes[m].receiver}
         /\ readyque[threads[c].priority].head = c
              => readyque'[threads[c].priority].head = c
         /\ IF msgboxes[m].receiver # NULL
            THEN last'.dlv.box = m /\ last'.dlv.ret = NULL
            ELSE /\ msgboxes'[m].tail # NULL
                 /\ msgbufs'[msgboxes'[m].tail].sender = NULL

C22_SrvSendKeepsInterrupted == [][C22_SrvSendStep]_vars

\* ---- C23 ---------------------------------------------------------------
\* the kernel with t as the current thread
WithCurrent(t) == [Kernel EXCEPT !.current = t]

\* C23 (idempotence): putcurrent for a thread that is READY returns the
\* kernel unchanged, and for any TCB a second putcurrent changes nothing.
C23_AttachIdempotent ==
  mode = "run"
    => /\ \A t \in ReadySet : putcurrent(WithCurrent(t)) = WithCurrent(t)
       /\ \A t \in Slots :
            putcurrent(putcurrent(WithCurrent(t))) = putcurrent(WithCurrent(t))

\* C23 (wakeup): in a WAKEUP of a thread other than the caller that is
\* READY, the queues and the TCBs are those left by the re-attachment of
\* the caller alone.
C23_WakeupOfReady ==
  mode = "run"
    => \A t \in ReadySet \ {current} :
         /\ thread_wakeup(Trap("WAKEUP"), t).readyque
              = putcurrent(Trap("WAKEUP")).readyque
         /\ thread_wakeup(Trap("WAKEUP"), t).threads
              = putcurrent(Trap("WAKEUP")).threads

\* C23 (order): getcurrent followed by putcurrent, for the running thread,
\* leaves it as the tail of the queue of its priority with next NULL, and
\* when the queue held another thread that thread is the new head.
C23_DetachAttachIsTail ==
  (mode = "run" /\ current \in ReadySet)
    => /\ putcurrent(getcurrent(Kernel))
            .readyque[threads[current].priority].tail = current
       /\ putcurrent(getcurrent(Kernel)).threads[current].next = NULL
       /\ IsReady(putcurrent(getcurrent(Kernel)), current)
       /\ threads[current].next # NULL
            => /\ putcurrent(getcurrent(Kernel))
                    .readyque[threads[current].priority].head
                  = threads[current].next
               /\ threads[current].next # current

C23_AttachDetach ==
  /\ C23_AttachIdempotent
  /\ C23_WakeupOfReady
  /\ C23_DetachAttachIsTail

\* ---- C24 ---------------------------------------------------------------
\* C24: in every state in which a thread runs with its READY flag set, the
\* states in which a system call or a softerr interrupt enters getcurrent,
\* the running thread is the head of the ready queue of its priority and
\* is linked once in all, so that head = current->next unlinks it and
\* nothing else.
C24_CurrentIsHead ==
  (mode = "run" /\ current \in ReadySet)
    => /\ readyque[threads[current].priority].head = current
       /\ Linked(current) = 1
       /\ ~IsReady(getcurrent(Kernel), current)
       /\ getcurrent(Kernel).readyque[threads[current].priority].head
            = threads[current].next

\* ---- C25 ---------------------------------------------------------------
\* the buffers linked from buffer b on, at most n of them
RECURSIVE BufChain(_, _)
BufChain(b, n) ==
  IF b = NULL \/ n = 0 THEN << >>
  ELSE << b >> \o BufChain(msgbufs[b].next, n - 1)

\* the buffers linked in mailbox m, oldest first
BoxBufs(m) == BufChain(msgboxes[m].head, Cardinality(DOMAIN msgbufs) + 1)

UsedBufs == {b \in DOMAIN msgbufs : msgbufs[b].used}

\* C25: when a request has been handled, a message buffer is allocated iff
\* it is linked in a mailbox, and no buffer is linked twice, in one mailbox
\* or in two.
C25_AllocatedIffLinked ==
  mode = "run"
    => /\ \A b \in DOMAIN msgbufs :
            msgbufs[b].used
              <=> \E m \in MboxIds :
                    \E i \in 1 .. Len(BoxBufs(m)) : BoxBufs(m)[i] = b
       /\ \A m \in MboxIds :
            \A i, j \in 1 .. Len(BoxBufs(m)) :
              BoxBufs(m)[i] = BoxBufs(m)[j] => i = j
       /\ \A m, n \in MboxIds :
            \A i \in 1 .. Len(BoxBufs(m)) :
              \A j \in 1 .. Len(BoxBufs(n)) :
                BoxBufs(m)[i] = BoxBufs(n)[j] => m = n

\* C25: a SEND allocates at most one buffer and frees none that stays
\* linked; a delivery frees the buffer it took the message from.
C25_BufferStep ==
  /\ last'.op = "SEND" /\ mode' = "run"
       => \/ /\ last'.dlv.box = -1
             /\ Cardinality(UsedBufs') = Cardinality(UsedBufs) + 1
             /\ UsedBufs \subseteq UsedBufs'
          \/ /\ last'.dlv.box # -1
             /\ UsedBufs' = UsedBufs
  /\ last'.op = "RECV" /\ mode' = "run"
       => \/ /\ last'.dlv.box = -1
             /\ UsedBufs' = UsedBufs
          \/ /\ last'.dlv.box # -1
             /\ UsedBufs' = UsedBufs \ {msgboxes[last'.a1].head}
             /\ msgboxes[last'.a1].head \in UsedBufs
  /\ last'.op \notin {"SEND", "RECV"} => UsedBufs' = UsedBufs

C25_BuffersLiveWhileLinked ==
  []C25_AllocatedIffLinked /\ [][C25_BufferStep]_vars

\* a RECV has taken the older of two queued messages: its buffer is free
\* again and the other one stays allocated and linked
C25_Witness ==
  /\ mode = "run"
  /\ last.op = "RECV" /\ last.dlv.box = last.a1
  /\ Len(BoxBufs(last.a1)) = 1
  /\ Cardinality(UsedBufs) = 1
  /\ Cardinality(DOMAIN msgbufs) >= 2

\* ---- C26 -----------------------------------------------------------------
\* C26: a successful RUN hands the new thread the region from the bump
\* pointer to the bump pointer plus stacksize and advances the bump pointer
\* by stacksize; every other step, a failed RUN, an EXIT and a software
\* error included, leaves the bump pointer alone; so the regions of all the
\* threads ever created with a stacksize above 0 are pairwise disjoint,
\* also when the slot of an exited thread is used again.
C26_BumpStep ==
  /\ thread_stack' >= thread_stack
  /\ IF last'.op \in {"START", "RUN"} /\ last'.ret # -1
     THEN /\ thread_stack' = thread_stack + last'.a2
          /\ threads'[last'.ret].stack = thread_stack'
          /\ stacks' = IF last'.a2 > 0
                       THEN Append(stacks, [base |-> thread_stack,
                                            top |-> thread_stack + last'.a2])
                       ELSE stacks
     ELSE /\ thread_stack' = thread_stack
          /\ stacks' = stacks

C26_Disjoint ==
  \A i \in DOMAIN stacks : \A j \in DOMAIN stacks :
    /\ stacks[i].top > stacks[i].base
    /\ i < j => stacks[i].top <= stacks[j].base

C26_StackRegionsDisjoint == []C26_Disjoint /\ [][C26_BumpStep]_vars

\* a thread with a stack has been created in the slot of an exited thread,
\* after other threads with stacks
C26_Witness ==
  /\ last.op = "RUN"
  /\ last.ret \in Slots
  /\ last.a2 > 0
  /\ Len(stacks) > Cardinality(ids)

\* ---- C27 -----------------------------------------------------------------
\* C27: every ready queue and every mailbox FIFO is a well-formed finite
\* list: head is null iff tail is null, the list from head has no cycle and
\* ends at tail, the next field of tail is null, and every TCB linked in
\* readyque[i] has the priority field i.
C27_ListsWellFormed ==
  /\ \A q \in Prios :
       /\ (readyque[q].head = NULL) <=> (readyque[q].tail = NULL)
       /\ Len(QueueSeq(q)) <= THREAD_NUM
       /\ \A i \in 1 .. Len(QueueSeq(q)) : \A j \in 1 .. Len(QueueSeq(q)) :
            QueueSeq(q)[i] = QueueSeq(q)[j] => i = j
       /\ QueueSeq(q) # << >> =>
            /\ QueueSeq(q)[Len(QueueSeq(q))] = readyque[q].tail
            /\ threads[readyque[q].tail].next = NULL
       /\ \A i \in 1 .. Len(QueueSeq(q)) : threads[QueueSeq(q)[i]].priority = q
  /\ \A m \in MboxIds :
       /\ (msgboxes[m].head = NULL) <=> (msgboxes[m].tail = NULL)
       /\ Len(BoxBufs(m)) <= Cardinality(DOMAIN msgbufs)
       /\ \A i \in 1 .. Len(BoxBufs(m)) : \A j \in 1 .. Len(BoxBufs(m)) :
            BoxBufs(m)[i] = BoxBufs(m)[j] => i = j
       /\ BoxBufs(m) # << >> =>
            /\ BoxBufs(m)[Len(BoxBufs(m))] = msgboxes[m].tail
            /\ msgbufs[msgboxes[m].tail].next = NULL

\* ---- C28 -----------------------------------------------------------------
\* C28: every request that re-attaches its caller (RUN, WAKEUP, GETID, CHPRI,
\* KMALLOC, KMFREE, SEND, SETINTR, and RECV on a mailbox that holds a
\* message) puts the caller behind the threads that are ready at its
\* priority: when another thread of that priority is ready and no thread of
\* a higher priority is, the caller stays READY and that other thread, not
\* the caller, is dispatched next.
C28_Reattaching ==
  \/ last'.op \in {"RUN", "WAKEUP", "GETID", "CHPRI", "KMALLOC", "KMFREE",
                   "SEND", "SETINTR"}
  \/ last'.op = "RECV" /\ msgboxes[last'.a1].head # NULL

C28_Step ==
  (/\ mode = "run"
   /\ mode' = "run"
   /\ last'.caller # NULL
   /\ C28_Reattaching
   /\ \E u \in Slots \ {last'.caller} :
        /\ threads[u].flags = KZ_THREAD_FLAG_READY
        /\ threads[u].priority = threads'[last'.caller].priority
   /\ \A u \in Slots \ {last'.caller} :
        threads'[u].flags = KZ_THREAD_FLAG_READY
          => threads'[u].priority >= threads'[last'.caller].priority)
  => /\ threads'[last'.caller].flags = KZ_THREAD_FLAG_READY
     /\ current' # last'.caller
     /\ threads[current'].flags = KZ_THREAD_FLAG_READY
     /\ threads[current'].priority = threads'[last'.caller].priority

C28_CallerGoesBehind == [][C28_Step]_vars

\* ---- C29 -----------------------------------------------------------------
\* C29: no free TCB slot (init.func null) is ever READY-flagged, linked in a
\* ready queue or dispatched, whatever the requests were, a WAKEUP with the
\* id of an exited thread and a delivery to an exited thread included.
C29_FreeSlotsStayOut ==
  \A t \in Slots :
    threads[t].func = 0 =>
      /\ threads[t].flags # KZ_THREAD_FLAG_READY
      /\ Linked(t) = 0
      /\ mode \in {"run", "undef"} => current # t

\* ---- C30 -----------------------------------------------------------------
\* C30: an interrupt whose vector has no registered handler, or whose
\* handler makes no service call, changes nothing but the saved stack
\* pointer of the interrupted thread: the ready queues, the READY flags, the
\* priorities, the TCB table and the mailboxes are as before, and the
\* thread dispatched afterwards is the interrupted thread.
C30_PlainIntrStep ==
  (mode = "run" /\ last'.op = "INTR")
    => /\ mode' = "run"
       /\ current' = current
       /\ threads' = threads
       /\ readyque' = readyque
       /\ msgboxes' = msgboxes
       /\ msgbufs' = msgbufs
       /\ handlers' = handlers

C30_PlainIntrChangesNothing == [][C30_PlainIntrStep]_vars

\* an interrupt has been taken while a second thread of the priority of the
\* interrupted thread was ready
C30_Witness ==
  /\ mode = "run"
  /\ last.op = "INTR"
  /\ \E u \in ReadySet : /\ u # current
                         /\ threads[u].priority = threads[current].priority

====
